---------------------------- MODULE Spec2Model ----------------------------
(***************************************************************************)
(* Model of the boolinator crate (src/src/lib.rs): the Boolinator trait    *)
(* and its implementation for bool.  Every method is modelled by an        *)
(* operator that computes the outcome of one call (how the call ended, the *)
(* value returned, how often each closure argument was invoked, which      *)
(* arguments were dropped unused and the panic message, if any), and by an *)
(* action that performs one call on arbitrary arguments.                   *)
(***************************************************************************)
EXTENDS Integers, Sequences, FiniteSets

(* ------------------------------ bounds -------------------------------- *)

\* payloads of the generic types T and E are the numbers 1..MaxVal
MaxVal == 3

\* messages are strings of at most MaxLen characters
MaxLen == 2

(* ------------------------------ values -------------------------------- *)

Values == 1 .. MaxVal

\* the characters messages are made of; braces are included because they
\* are the characters a format string treats specially
Chars == {"a", "{", "}"}

RECURSIVE StrUpTo(_)
StrUpTo(n) ==
    IF n = 0 THEN {<< >>}
    ELSE LET shorter == StrUpTo(n - 1)
         IN  shorter \cup {Append(s, c) : s \in shorter, c \in Chars}

\* &str values, the empty string included
Msgs == StrUpTo(MaxLen)

\* the unit value ()
Unit == "()"

\* Option<T>
None == [tag |-> "None"]
Some(v) == [tag |-> "Some", val |-> v]
Options(T) == {None} \cup {Some(v) : v \in T}

\* Result<T, E>
Ok(v) == [tag |-> "Ok", val |-> v]
Err(e) == [tag |-> "Err", val |-> e]

\* a call that has not returned has no return value
NoRet == [tag |-> "NoReturn"]

(* ----------------------- deferred computations ------------------------ *)

\* A closure F: FnOnce() -> T is caller code: invoked, it either returns
\* a value of T or unwinds with a panic of its own.
Returning(v) == [kind |-> "ret", val |-> v]
Panicking(m) == [kind |-> "panic", msg |-> m]
Closures(T) == {Returning(v) : v \in T} \cup {Panicking(m) : m \in Msgs}

\* the invocation counters of the four closure parameters
NoCalls == [some |-> 0, opt |-> 0, ok |-> 0, err |-> 0]

(* --------------------------- call outcomes ---------------------------- *)

\* the call returned r; c counts the closure invocations, d names the
\* parameters that went out of scope without being used
Return(r, c, d) ==
    [pc |-> "returned", ret |-> r, calls |-> c, dropped |-> d,
     panicMsg |-> None]

\* the call unwound with message m
Panic(m, c, d) ==
    [pc |-> "panicked", ret |-> NoRet, calls |-> c, dropped |-> d,
     panicMsg |-> Some(m)]

\* the call expression f() where f is the closure parameter p: f is
\* invoked once; the call yields its value, or its panic unwinds through
\* the caller
Invoke(f, p, d) ==
    LET c == [NoCalls EXCEPT ![p] = @ + 1]
    IN  IF f.kind = "ret" THEN Return(f.val, c, d)
        ELSE Panic(f.msg, c, d)

\* Some(e), Ok(e), Err(e) around an expression e with outcome o: the
\* value is wrapped once e has been evaluated; an unwinding e is not
SomeOf(o) == IF o.pc = "returned" THEN [o EXCEPT !.ret = Some(@)] ELSE o
OkOf(o) == IF o.pc = "returned" THEN [o EXCEPT !.ret = Ok(@)] ELSE o
ErrOf(o) == IF o.pc = "returned" THEN [o EXCEPT !.ret = Err(@)] ELSE o

(* ----------------------------- formatting ----------------------------- *)

\* fmt::Write::write_str: the characters of s are appended to buf in order
RECURSIVE WriteStr(_, _)
WriteStr(buf, s) ==
    IF s = << >> THEN buf
    ELSE WriteStr(Append(buf, Head(s)), Tail(s))

\* Display for str without width or precision writes the string itself
DisplayStr(buf, s) == WriteStr(buf, s)

\* the format string "{}": no literal text, one Display placeholder.
\* A piece is either a literal string or the placeholder for the argument.
Placeholder == [arg |-> TRUE, lit |-> << >>]
ExpectFormat == << Placeholder >>

\* format_args!: the pieces are written in order, the argument in place of
\* each placeholder
RECURSIVE Format(_, _, _)
Format(buf, pieces, a) ==
    IF pieces = << >> THEN buf
    ELSE LET p == Head(pieces)
             b1 == IF p.arg THEN DisplayStr(buf, a) ELSE WriteStr(buf, p.lit)
         IN  Format(b1, Tail(pieces), a)

(* ------------------------ impl Boolinator for bool -------------------- *)

\* as_option that ignores the receiver
as_option_always(self) ==
    Return(Some(Unit), NoCalls, {})

as_option(self) ==
    IF self THEN Return(Some(Unit), NoCalls, {})
    ELSE Return(None, NoCalls, {})

\* as_some with the condition inverted
as_some_inverted(self, some) ==
    IF ~self THEN Return(Some(some), NoCalls, {})
    ELSE Return(None, NoCalls, {"some"})

\* as_some that unwraps on the false branch
as_some_unwrap(self, some) ==
    IF self THEN Return(Some(some), NoCalls, {})
    ELSE Panic(<< "a" >>, NoCalls, {"some"})

as_some(self, some) ==
    IF self THEN Return(Some(some), NoCalls, {})
    ELSE Return(None, NoCalls, {"some"})

\* as_some_from written as self.as_some(some()): the closure is evaluated
\* before the condition is looked at
as_some_from_eager(self, some) ==
    LET o == Invoke(some, "some", {})
    IN  IF o.pc = "returned"
        THEN IF self THEN SomeOf(o) ELSE [o EXCEPT !.ret = None]
        ELSE o

\* as_some_from with the condition inverted
as_some_from_inverted(self, some) ==
    IF ~self THEN SomeOf(Invoke(some, "some", {}))
    ELSE Return(None, NoCalls, {"some"})

as_some_from(self, some) ==
    IF self THEN SomeOf(Invoke(some, "some", {}))
    ELSE Return(None, NoCalls, {"some"})

\* and_option that passes opt through on both branches
and_option_passthrough(self, opt) ==
    Return(opt, NoCalls, {})

and_option(self, opt) ==
    IF self THEN Return(opt, NoCalls, {})
    ELSE Return(None, NoCalls, {"opt"})

\* and_option_from written as self.and_option(opt())
and_option_from_eager(self, opt) ==
    LET o == Invoke(opt, "opt", {})
    IN  IF o.pc = "returned"
        THEN IF self THEN o ELSE [o EXCEPT !.ret = None]
        ELSE o

and_option_from(self, opt) ==
    IF self THEN Invoke(opt, "opt", {})
    ELSE Return(None, NoCalls, {"opt"})

\* as_result with the payloads swapped
as_result_swapped(self, ok, err) ==
    IF self THEN Return(Ok(err), NoCalls, {"ok"})
    ELSE Return(Err(ok), NoCalls, {"err"})

as_result(self, ok, err) ==
    IF self THEN Return(Ok(ok), NoCalls, {"err"})
    ELSE Return(Err(err), NoCalls, {"ok"})

\* as_result_from written as self.as_result(ok(), err()): both closures
\* are evaluated, ok first
as_result_from_eager(self, ok, err) ==
    LET o1 == Invoke(ok, "ok", {})
        o2 == Invoke(err, "err", {})
        both == [NoCalls EXCEPT !["ok"] = 1, !["err"] = 1]
    IN  IF o1.pc = "panicked" THEN o1
        ELSE IF o2.pc = "panicked" THEN [o2 EXCEPT !.calls = both]
        ELSE IF self THEN Return(Ok(o1.ret), both, {})
        ELSE Return(Err(o2.ret), both, {})

as_result_from(self, ok, err) ==
    IF self THEN OkOf(Invoke(ok, "ok", {"err"}))
    ELSE ErrOf(Invoke(err, "err", {"ok"}))

\* expect written with panic!("{:?}", msg): Debug quotes the string
expect_debug(self, msg) ==
    IF self THEN Return(Unit, NoCalls, {})
    ELSE Panic(<< "\"" >> \o msg \o << "\"" >>, NoCalls, {})

expect(self, msg) ==
    IF self THEN Return(Unit, NoCalls, {})
    ELSE Panic(Format(<< >>, ExpectFormat, msg), NoCalls, {})

(* ------------------------------- state -------------------------------- *)

VARIABLES
    pc,        \* "ready", "returned" or "panicked": how the last call ended
    op,        \* the method called last
    this,      \* the bool the method was called on
    args,      \* the arguments of the call
    ret,       \* the value returned, NoRet if the call did not return
    calls,     \* how often the call invoked each closure parameter
    dropped,   \* the parameters the call dropped unused
    panicMsg   \* Some(message) if the call panicked, None otherwise

vars == << pc, op, this, args, ret, calls, dropped, panicMsg >>

Init ==
    /\ pc = "ready"
    /\ op = "none"
    /\ this = FALSE
    /\ args = << >>
    /\ ret = NoRet
    /\ calls = NoCalls
    /\ dropped = {}
    /\ panicMsg = None

\* Each action is one call of a method on arbitrary arguments; the state
\* records the call and its outcome.  A panic unwinds the calling thread,
\* which makes no further call.

AsOption ==
    \E b \in BOOLEAN :
        LET out == as_option(b)
        IN  /\ pc # "panicked"
            /\ op' = "as_option"
            /\ this' = b
            /\ args' = << >>
            /\ pc' = out.pc
            /\ ret' = out.ret
            /\ calls' = out.calls
            /\ dropped' = out.dropped
            /\ panicMsg' = out.panicMsg

AsSome ==
    \E b \in BOOLEAN, v \in Values :
        LET out == as_some(b, v)
        IN  /\ pc # "panicked"
            /\ op' = "as_some"
            /\ this' = b
            /\ args' = [some |-> v]
            /\ pc' = out.pc
            /\ ret' = out.ret
            /\ calls' = out.calls
            /\ dropped' = out.dropped
            /\ panicMsg' = out.panicMsg

AsSomeFrom ==
    \E b \in BOOLEAN, f \in Closures(Values) :
        LET out == as_some_from(b, f)
        IN  /\ pc # "panicked"
            /\ op' = "as_some_from"
            /\ this' = b
            /\ args' = [some |-> f]
            /\ pc' = out.pc
            /\ ret' = out.ret
            /\ calls' = out.calls
            /\ dropped' = out.dropped
            /\ panicMsg' = out.panicMsg

AndOption ==
    \E b \in BOOLEAN, o \in Options(Values) :
        LET out == and_option(b, o)
        IN  /\ pc # "panicked"
            /\ op' = "and_option"
            /\ this' = b
            /\ args' = [opt |-> o]
            /\ pc' = out.pc
            /\ ret' = out.ret
            /\ calls' = out.calls
            /\ dropped' = out.dropped
            /\ panicMsg' = out.panicMsg

AndOptionFrom ==
    \E b \in BOOLEAN, f \in Closures(Options(Values)) :
        LET out == and_option_from(b, f)
        IN  /\ pc # "panicked"
            /\ op' = "and_option_from"
            /\ this' = b
            /\ args' = [opt |-> f]
            /\ pc' = out.pc
            /\ ret' = out.ret
            /\ calls' = out.calls
            /\ dropped' = out.dropped
            /\ panicMsg' = out.panicMsg

AsResult ==
    \E b \in BOOLEAN, v \in Values, e \in Values :
        LET out == as_result(b, v, e)
        IN  /\ pc # "panicked"
            /\ op' = "as_result"
            /\ this' = b
            /\ args' = [ok |-> v, err |-> e]
            /\ pc' = out.pc
            /\ ret' = out.ret
            /\ calls' = out.calls
            /\ dropped' = out.dropped
            /\ panicMsg' = out.panicMsg

AsResultFrom ==
    \E b \in BOOLEAN, f \in Closures(Values), g \in Closures(Values) :
        LET out == as_result_from(b, f, g)
        IN  /\ pc # "panicked"
            /\ op' = "as_result_from"
            /\ this' = b
            /\ args' = [ok |-> f, err |-> g]
            /\ pc' = out.pc
            /\ ret' = out.ret
            /\ calls' = out.calls
            /\ dropped' = out.dropped
            /\ panicMsg' = out.panicMsg

Expect ==
    \E b \in BOOLEAN, m \in Msgs :
        LET out == expect(b, m)
        IN  /\ pc # "panicked"
            /\ op' = "expect"
            /\ this' = b
            /\ args' = [msg |-> m]
            /\ pc' = out.pc
            /\ ret' = out.ret
            /\ calls' = out.calls
            /\ dropped' = out.dropped
            /\ panicMsg' = out.panicMsg

Next ==
    \/ AsOption
    \/ AsSome
    \/ AsSomeFrom
    \/ AndOption
    \/ AndOptionFrom
    \/ AsResult
    \/ AsResultFrom
    \/ Expect

Spec == Init /\ [][Next]_vars

(* ------------------------------ claims -------------------------------- *)

\* the option-producing and the result-producing methods
OptionOps == {"as_option", "as_some", "as_some_from", "and_option",
              "and_option_from"}
ResultOps == {"as_result", "as_result_from"}

\* a well-formed Option: None, or Some with exactly one payload
WellFormedOption(r) ==
    \/ r.tag = "None" /\ DOMAIN r = {"tag"}
    \/ r.tag = "Some" /\ DOMAIN r = {"tag", "val"}

\* a well-formed Result: Ok or Err with exactly one payload
WellFormedResult(r) ==
    /\ r.tag \in {"Ok", "Err"}
    /\ DOMAIN r = {"tag", "val"}

\* the last call returned a well-formed container of its method's type
ReturnedWellFormed ==
    /\ pc = "returned"
    /\ panicMsg = None
    /\ op \in OptionOps => WellFormedOption(ret)
    /\ op \in ResultOps => WellFormedResult(ret)

\* C1: as_some_from(b, f) invokes f at most once, and invokes it iff b is
\* true; when b is true and f returns, the result is Some of f's return
\* value; when b is false the result is None and f was invoked zero times.
C1_AsSomeFromShortCircuit ==
    op = "as_some_from" =>
        /\ calls.some <= 1
        /\ calls.some = 1 <=> this
        /\ calls = [NoCalls EXCEPT !["some"] = calls.some]
        /\ this /\ args.some.kind = "ret" =>
               pc = "returned" /\ ret = Some(args.some.val)
        /\ ~this => pc = "returned" /\ ret = None /\ calls.some = 0

\* as_some_from on false was handed a closure that would panic, and
\* returned None without invoking it
C1_Witness ==
    /\ op = "as_some_from"
    /\ ~this
    /\ args.some.kind = "panic"
    /\ pc = "returned"
    /\ calls.some = 0

\* C2: as_result_from(b, fok, ferr) invokes exactly one of the two
\* computations, exactly once: fok and never ferr iff b is true, yielding
\* Ok of fok's value; otherwise ferr and never fok, yielding Err of ferr's
\* value.
C2_AsResultFromExactlyOne ==
    op = "as_result_from" =>
        /\ calls.ok + calls.err = 1
        /\ calls.ok = 1 <=> this
        /\ calls.err = 1 <=> ~this
        /\ calls.some = 0 /\ calls.opt = 0
        /\ this /\ args.ok.kind = "ret" =>
               pc = "returned" /\ ret = Ok(args.ok.val)
        /\ ~this /\ args.err.kind = "ret" =>
               pc = "returned" /\ ret = Err(args.err.val)

\* as_result_from on false returned Err of ferr's value although fok
\* would have panicked
C2_Witness ==
    /\ op = "as_result_from"
    /\ ~this
    /\ args.ok.kind = "panic"
    /\ args.err.kind = "ret"
    /\ pc = "returned"
    /\ ret = Err(args.err.val)
    /\ calls.err = 1

\* C3: and_option_from(b, f) invokes f iff b is true and never otherwise;
\* when b is true the result is exactly what f returned (Some(v) or None),
\* when b is false the result is None whatever f would have returned.
C3_AndOptionFromShortCircuit ==
    op = "and_option_from" =>
        /\ calls.opt = (IF this THEN 1 ELSE 0)
        /\ calls = [NoCalls EXCEPT !["opt"] = calls.opt]
        /\ this /\ args.opt.kind = "ret" =>
               pc = "returned" /\ ret = args.opt.val
        /\ ~this => pc = "returned" /\ ret = None

\* and_option_from on false returned None although f would have returned
\* Some(v)
C3_Witness ==
    /\ op = "and_option_from"
    /\ ~this
    /\ args.opt.kind = "ret"
    /\ args.opt.val # None
    /\ pc = "returned"
    /\ ret = None
    /\ calls.opt = 0

\* C4: expect(b, msg) returns normally with no observable effect when b is
\* true; when b is false it panics, does not return, and the panic message
\* equals msg character for character (the empty string included).
C4_ExpectPanicsWithMsg ==
    op = "expect" =>
        /\ this => /\ pc = "returned"
                   /\ ret = Unit
                   /\ panicMsg = None
                   /\ calls = NoCalls
        /\ ~this => /\ pc = "panicked"
                    /\ ret = NoRet
                    /\ panicMsg.tag = "Some"
                    /\ Len(panicMsg.val) = Len(args.msg)
                    /\ \A i \in 1 .. Len(args.msg) :
                           panicMsg.val[i] = args.msg[i]

\* expect on false panicked with a message that holds format characters
C4_Witness ==
    /\ op = "expect"
    /\ ~this
    /\ pc = "panicked"
    /\ args.msg = << "{", "}" >>
    /\ panicMsg = Some(args.msg)

C6_AsResult ==
    op = "as_result" =>
        /\ pc = "returned"
        /\ ret = Ok(args.ok) <=> this
        /\ ret = Err(args.err) <=> ~this
        /\ DOMAIN ret = {"tag", "val"}
        /\ dropped = {IF this THEN "err" ELSE "ok"}
        /\ args.ok # args.err =>
               ret.val # (IF this THEN args.err ELSE args.ok)

\* as_result on false returned Err(err) for two different payloads
C6_Witness ==
    /\ op = "as_result"
    /\ ~this
    /\ args.ok # args.err
    /\ ret = Err(args.err)

\* C7: as_some(b, v) is Some(v) iff b is true, and None otherwise.
C7_AsSome ==
    op = "as_some" =>
        /\ pc = "returned"
        /\ ret = Some(args.some) <=> this
        /\ ~this => ret = None

\* as_some on true returned Some(v)
C7_Witness ==
    /\ op = "as_some"
    /\ this
    /\ ret = Some(args.some)

\* C8: as_option(b) is non-empty iff b is true: Some(()) for true, None
\* for false.
C8_AsOption ==
    op = "as_option" =>
        /\ pc = "returned"
        /\ ret # None <=> this
        /\ this => ret = Some(Unit)
        /\ ~this => ret = None

\* as_option on false returned None
C8_Witness ==
    /\ op = "as_option"
    /\ ~this
    /\ ret = None

Selected ==
    CASE op = "as_some_from" -> IF this THEN {args.some} ELSE {}
      [] op = "and_option_from" -> IF this THEN {args.opt} ELSE {}
      [] op = "as_result_from" -> IF this THEN {args.ok} ELSE {args.err}
      [] OTHER -> {}

C10_DeferredAgreesWithEager ==
    /\ op = "as_some_from" /\ args.some.kind = "ret" =>
           /\ pc = as_some(this, args.some.val).pc
           /\ ret = as_some(this, args.some.val).ret
    /\ op = "and_option_from" /\ args.opt.kind = "ret" =>
           /\ pc = and_option(this, args.opt.val).pc
           /\ ret = and_option(this, args.opt.val).ret
    /\ /\ op = "as_result_from"
       /\ args.ok.kind = "ret"
       /\ args.err.kind = "ret"
       => /\ pc = as_result(this, args.ok.val, args.err.val).pc
          /\ ret = as_result(this, args.ok.val, args.err.val).ret
    /\ op = "as_option" => ret = as_some(this, Unit).ret
    /\ op = "as_some" => ret = and_option(this, Some(args.some)).ret

\* as_result_from with two returning closures returned Ok of the first
C10_Witness ==
    /\ op = "as_result_from"
    /\ this
    /\ args.ok.kind = "ret"
    /\ args.err.kind = "ret"
    /\ args.ok.val # args.err.val
    /\ pc = "returned"
    /\ ret = Ok(args.ok.val)

=============================================================================
